---- MODULE Spec2Model ----
(***************************************************************************)
(* Model of the Telegram bot wrapper: the pickle-backed Config store, the  *)
(* TelegramBot facade in its two variants (telegram_utils/main.py and the  *)
(* older single-file telegram_bot.py), the listen session driven by the    *)
(* dispatcher thread and the SIGTERM handler of the main thread, and the   *)
(* TelegramHandler logging adapter.                                        *)
(***************************************************************************)
EXTENDS Integers, Sequences, FiniteSets, TLC

\* ------------------------------------------------------------------ bounds
MaxMsgs == 2

\* ------------------------------------------------------------ input sets
Variants  == {"utils", "legacy"}
ChatIds   == {5, 7}
Names     == {"Alice", "Bob"}
ArgTokens   == {"tokA", ""}
TypedTokens == {"tokB"}
Passwords == {"12345678"}
ParseModes == {"HTML"}

\* ------------------------------------------------------- Python values
\* A Python value: None, an int, a str or a dict (d maps key values to values).
NoDict    == [k \in {} |-> 0]
PyNone    == [t |-> "none", i |-> 0, s |-> "", d |-> NoDict]
PyInt(n)  == [t |-> "int",  i |-> n, s |-> "", d |-> NoDict]
PyStr(x)  == [t |-> "str",  i |-> 0, s |-> x,  d |-> NoDict]
PyDict(f) == [t |-> "dict", i |-> 0, s |-> "", d |-> f]
EmptyDict == PyDict(NoDict)

\* bool(v): None, 0, "" and {} are falsy.
Truthy(v) ==
  CASE v.t = "none" -> FALSE
    [] v.t = "int"  -> v.i # 0
    [] v.t = "str"  -> v.s # ""
    [] v.t = "dict" -> DOMAIN v.d # {}
    [] OTHER        -> TRUE

\* dict.update(m), first-write-wins variant (mutation).
DictUpdateKeepOld(d, m) ==
  [k \in (DOMAIN d) \cup (DOMAIN m) |-> IF k \in DOMAIN d THEN d[k] ELSE m[k]]

\* dict.update(m): every key of m is (re)bound, the other keys are kept.
DictUpdate(d, m) ==
  [k \in (DOMAIN d) \cup (DOMAIN m) |-> IF k \in DOMAIN m THEN m[k] ELSE d[k]]

\* dict.get(key) with the default None.
DictGet(v, key) == IF key \in DOMAIN v.d THEN v.d[key] ELSE PyNone

\* A registry {chat id: name} as a Python dict.
ClientDict(f) == PyDict([k \in {PyInt(c) : c \in DOMAIN f} |-> PyStr(f[k.i])])

\* ------------------------------------------------------------- pickle
\* The pickle stream is a sequence of opcodes (MEMOIZE, which only fills
\* the memo, is left out).
Op(o, n, x) == [op |-> o, i |-> n, s |-> x]
Mark == [t |-> "mark", i |-> 0, s |-> "", d |-> NoDict]

\* The keys of a dict in the order they are written.
KeySeq(f) ==
  CHOOSE q \in [1..Cardinality(DOMAIN f) -> DOMAIN f] :
    \A a, b \in 1..Cardinality(DOMAIN f) : a # b => q[a] # q[b]

RECURSIVE Save(_)
\* Pickler.save(v): the opcodes that rebuild v on the unpickler's stack.
Save(v) ==
  CASE v.t = "none" -> << Op("NONE", 0, "") >>
    [] v.t = "int"  -> << Op("BININT", v.i, "") >>
    [] v.t = "str"  -> << Op("UNICODE", 0, v.s) >>
    [] v.t = "dict" ->
         LET ks == KeySeq(v.d)
             n  == Len(ks)
             Items[j \in 0..n] ==
               IF j = 0 THEN << >>
               ELSE Items[j - 1] \o Save(ks[j]) \o Save(v.d[ks[j]])
         IN  IF n = 0 THEN << Op("EMPTY_DICT", 0, "") >>
             ELSE IF n = 1
               THEN << Op("EMPTY_DICT", 0, "") >> \o Items[1]
                      \o << Op("SETITEM", 0, "") >>
               ELSE << Op("EMPTY_DICT", 0, ""), Op("MARK", 0, "") >> \o Items[n]
                      \o << Op("SETITEMS", 0, "") >>

\* pickle.dump(v, f): protocol header, one frame holding the body, STOP.
PickleDump(v) ==
  LET body == Save(v) \o << Op("STOP", 0, "") >>
  IN  << Op("PROTO", 4, ""), Op("FRAME", Len(body), "") >> \o body

Raise(e)  == [err |-> e, v |-> PyNone]
Return(v) == [err |-> "", v |-> v]

\* Index of the topmost MARK on the stack, 0 if there is none.
TopMark(stack) ==
  IF \E j \in 1..Len(stack) : stack[j] = Mark
  THEN CHOOSE j \in 1..Len(stack) :
         stack[j] = Mark /\ \A l \in (j + 1)..Len(stack) : stack[l] # Mark
  ELSE 0

\* dict[k1] = v1; dict[k2] = v2; ... for the flat list items = k1 v1 k2 v2 ...
SetItems(dict, items) ==
  LET n == Len(items) \div 2
      R[j \in 0..n] ==
        IF j = 0 THEN dict.d
        ELSE DictUpdate(R[j - 1],
                        [k \in {items[2 * j - 1]} |-> items[2 * j]])
  IN  PyDict(R[n])

RECURSIVE Unpickle(_, _, _)
\* Unpickler.load(): run the opcodes from position pos on the stack.
Unpickle(b, pos, stack) ==
  IF pos > Len(b) THEN Raise("EOFError")
  ELSE
    LET o == b[pos]
        n == Len(stack)
    IN
    CASE o.op = "PROTO" -> Unpickle(b, pos + 1, stack)
      [] o.op = "FRAME" ->
           IF Len(b) - pos < o.i THEN Raise("UnpicklingError")
           ELSE Unpickle(b, pos + 1, stack)
      [] o.op = "NONE"       -> Unpickle(b, pos + 1, Append(stack, PyNone))
      [] o.op = "BININT"     -> Unpickle(b, pos + 1, Append(stack, PyInt(o.i)))
      [] o.op = "UNICODE"    -> Unpickle(b, pos + 1, Append(stack, PyStr(o.s)))
      [] o.op = "EMPTY_DICT" -> Unpickle(b, pos + 1, Append(stack, EmptyDict))
      [] o.op = "MARK"       -> Unpickle(b, pos + 1, Append(stack, Mark))
      [] o.op = "SETITEM" ->
           IF n - TopMark(stack) < 3 THEN Raise("UnpicklingError")
           ELSE IF stack[n - 2].t # "dict" \/ stack[n - 1].t = "dict"
             THEN Raise("TypeError")
             ELSE Unpickle(b, pos + 1,
                    Append(SubSeq(stack, 1, n - 3),
                           SetItems(stack[n - 2], SubSeq(stack, n - 1, n))))
      [] o.op = "SETITEMS" ->
           LET m     == TopMark(stack)
               items == SubSeq(stack, m + 1, n)
           IN  IF m = 0 \/ m = 1 \/ stack[m - 1] = Mark
                 THEN Raise("UnpicklingError")
               ELSE IF Len(items) = 0
                 THEN Unpickle(b, pos + 1, SubSeq(stack, 1, m - 1))
               ELSE IF Len(items) % 2 # 0 THEN Raise("UnpicklingError")
               ELSE IF stack[m - 1].t # "dict"
                       \/ \E j \in 1..(Len(items) \div 2) :
                            items[2 * j - 1].t = "dict"
                 THEN Raise("TypeError")
               ELSE Unpickle(b, pos + 1,
                      Append(SubSeq(stack, 1, m - 2),
                             SetItems(stack[m - 1], items)))
      [] o.op = "STOP" ->
           IF n - TopMark(stack) < 1 THEN Raise("UnpicklingError")
           ELSE Return(stack[n])
      [] OTHER -> Raise("UnpicklingError")

\* pickle.load(f)
PickleLoad(b) == Unpickle(b, 1, << >>)

\* ------------------------------------------------------------- Config
\* The file at the config path: absent, or present with its content.
NoFile      == [exists |-> FALSE, bytes |-> << >>]
FileOf(b)   == [exists |-> TRUE, bytes |-> b]

\* The dict write_config pickles.
ConfigRecord(tok, ids) ==
  PyDict([k \in {PyStr("token"), PyStr("client_ids")} |->
            IF k = PyStr("token") THEN tok ELSE ids])

\* Config.__init__: the loaded (token, client_ids), or the error raised.
ConfigInit(f) ==
  IF ~f.exists THEN [err |-> "", token |-> PyNone, client_ids |-> EmptyDict]
  ELSE
    LET r == PickleLoad(f.bytes) IN
    IF r.err = "UnpicklingError"
      THEN [err |-> "ConfigError", token |-> PyNone, client_ids |-> PyNone]
    ELSE IF r.err # ""
      THEN [err |-> r.err, token |-> PyNone, client_ids |-> PyNone]
    ELSE IF r.v.t # "dict"
      THEN [err |-> "AttributeError", token |-> PyNone, client_ids |-> PyNone]
    ELSE [err |-> "", token |-> DictGet(r.v, PyStr("token")),
          client_ids |-> DictGet(r.v, PyStr("client_ids"))]

\* Config.write_config, without the write (mutation).
WriteConfigSkipped(f, tok, ids) == f

\* Config.write_config: the file after the write (the parent directory is
\* created when the first open fails).
WriteConfig(f, tok, ids) == FileOf(PickleDump(ConfigRecord(tok, ids)))


\* ------------------------------------------------------------ the state
VARIABLES
  variant,     \* which facade: telegram_utils/main.py or telegram_bot.py
  file,        \* the file at the config path
  pc,          \* position of the calling (main) thread
  token,       \* Config.token of the facade
  client_ids,  \* Config.client_ids of the facade
  handler,     \* the TelegramHandler installed on the loggers, if any
  session,     \* state of the listen session
  kind,        \* the predicate of the session: "register" or "generic"
  password,    \* the password of the running registration
  inbox,       \* inbound messages dispatched in the session, with outcome
  replies,     \* reply_text calls of the session
  pending,     \* recipients the running send_message has still to serve
  calls,       \* bot.send_message transport calls of the current operation
  call         \* the current or last facade call and the state it started in

vars == << variant, file, pc, token, client_ids, handler, session, kind,
           password, inbox, replies, pending, calls, call >>

\* Texts are sequences of words; a password is one word.
Contains(text, w) == \E j \in 1..Len(text) : text[j] = w
LogText(pw)  == << "Please send the password '", pw, "' to your bot." >>
InTexts      == {<< pw >> : pw \in Passwords} \cup {<< "hello" >>}
OutTexts     == {<< "status" >>}
Invalid      == << "Invalid!" >>
Accepted     == << "Accepted." >>

\* Registries {chat id: name} a caller can pass.
ClientMaps == UNION {[S -> Names] : S \in SUBSET ChatIds}

\* All orders in which the elements of S can be iterated.
Orders(S) ==
  {q \in [1..Cardinality(S) -> S] :
     \A a, b \in 1..Cardinality(S) : a # b => q[a] # q[b]}

AllOrders == UNION {Orders(S) : S \in SUBSET ChatIds}

\* The chat ids a client_ids value iterates over.
IdsOf(v) == IF v.t = "dict" THEN {k.i : k \in DOMAIN v.d} ELSE {}

\* Files the config path can hold before the facade is constructed.
SampleFile ==
  PickleDump(ConfigRecord(PyStr("tokA"), ClientDict([c \in {5} |-> "Alice"])))
ValidFiles ==
  {PickleDump(ConfigRecord(t, ClientDict(m))) :
     t \in {PyNone, PyStr("tokA")},
     m \in {f \in ClientMaps : DOMAIN f \subseteq {5}
                                /\ \A c \in DOMAIN f : f[c] = "Alice"}}
TruncatedFiles == {SubSeq(SampleFile, 1, j) : j \in 0..(Len(SampleFile) - 1)}
OddFiles ==
  { << Op("GARBAGE", 0, "") >>,
    << Op("NONE", 0, ""), Op("STOP", 0, "") >>,
    << Op("EMPTY_DICT", 0, ""), Op("STOP", 0, "") >>,
    PickleDump(PyDict([k \in {PyStr("token")} |-> PyStr("tokA")])) }
InitFiles ==
  {NoFile} \cup {FileOf(b) : b \in ValidFiles \cup TruncatedFiles \cup OddFiles}

NoHandler == [installed |-> FALSE, token |-> PyNone, client_ids |-> PyNone]
Pre       == [token |-> token, client_ids |-> client_ids, file |-> file]
NoArgs    == [text |-> << >>, mode |-> "", given |-> FALSE, ids |-> {},
              order |-> << >>, map |-> << >>]
Call(o, st, e, a) == [op |-> o, st |-> st, err |-> e, args |-> a, pre |-> Pre]

\* The display name (chat.full_name) of a chat.
FullName(chat) == IF chat = 5 THEN "Alice" ELSE "Bob"

\* A facade call that opens no session starts with no session of its own.
NoSession ==
  /\ session' = "Idle"
  /\ kind' = ""
  /\ password' = ""
  /\ inbox' = << >>
  /\ replies' = << >>

Init ==
  /\ variant \in Variants
  /\ file \in InitFiles
  /\ pc = "new"
  /\ token = PyNone
  /\ client_ids = PyNone
  /\ handler = NoHandler
  /\ session = "Idle"
  /\ kind = ""
  /\ password = ""
  /\ inbox = << >>
  /\ replies = << >>
  /\ pending = << >>
  /\ calls = << >>
  /\ call = Call("", "", "", NoArgs)

\* TelegramBot.__init__: load the config, or fail with what Config raises.
Construct ==
  /\ pc = "new"
  /\ LET r == ConfigInit(file) IN
       IF r.err # ""
         THEN /\ pc' = "failed"
              /\ call' = Call("init", "raised", r.err, NoArgs)
              /\ UNCHANGED << token, client_ids >>
         ELSE /\ pc' = "ready"
              /\ token' = r.token
              /\ client_ids' = r.client_ids
              /\ call' = Call("init", "returned", "", NoArgs)
  /\ UNCHANGED << variant, file, handler, session, kind, password, inbox, replies, pending, calls >>

\* set_bot_token(arg): arg = "" stands for no argument, and the token is
\* then what the operator types at the prompt.
SetBotToken(arg, typed) ==
  /\ pc = "ready"
  /\ token' = PyStr(IF arg # "" THEN arg ELSE typed)
  /\ file' = WriteConfig(file, token', client_ids)
  /\ calls' = << >>
  /\ call' = Call("set_bot_token", "returned", "", NoArgs)
  /\ NoSession
  /\ UNCHANGED << variant, pc, client_ids, handler, pending >>

\* TelegramHandler.__init__ on the same config path: its own TelegramBot.
\* The hosting process sets up its logging once, right after start-up.
InstallHandler ==
  /\ pc = "ready"
  /\ call.op = "init"
  /\ ~handler.installed
  /\ LET r == ConfigInit(file) IN
       /\ r.err = ""
       /\ handler' = [installed |-> TRUE, token |-> r.token,
                      client_ids |-> r.client_ids]
  /\ UNCHANGED << variant, file, pc, token, client_ids, session, kind,
                  password, inbox, replies, pending, calls,
                  call >>


\* One bot.send_message transport call and whether the transport took it.
Sent(c, text, mode, ok) == [chat |-> c, text |-> text, mode |-> mode, ok |-> ok]

\* add_client(m) with a map: merge it into the registry and persist.  In the
\* legacy facade an absent or empty map starts the registration instead (see
\* RegisterClient); in the utils facade the map is a required argument.
AddClient(given, m) ==
  /\ pc = "ready"
  /\ variant = "legacy" => given /\ DOMAIN m # {}
  /\ ~given => DOMAIN m = {}
  /\ calls' = << >>
  /\ LET a == [NoArgs EXCEPT !.given = given, !.map = m] IN
       IF ~given
         THEN /\ call' = Call("add_client", "raised", "TypeError", a)
              /\ UNCHANGED << client_ids, file >>
       ELSE IF client_ids.t # "dict"
         THEN /\ call' = Call("add_client", "raised", "AttributeError", a)
              /\ UNCHANGED << client_ids, file >>
       ELSE /\ client_ids' = PyDict(DictUpdate(client_ids.d, ClientDict(m).d))
            /\ file' = WriteConfig(file, token, client_ids')
            /\ call' = Call("add_client", "returned", "", a)
  /\ NoSession
  /\ UNCHANGED << variant, pc, token, handler, pending >>

\* TelegramHandler.emit(record): send_message(text) of the handler's own bot
\* to its whole registry in the given order; the transport takes the first
\* upto calls.
Emit(h, text, order, upto) ==
  IF ~h.installed THEN [err |-> "", calls |-> << >>]
  ELSE IF ~Truthy(h.token) THEN [err |-> "NoTokenError", calls |-> << >>]
  ELSE IF ~Truthy(h.client_ids)
    THEN [err |-> "NoClientIdsError", calls |-> << >>]
  ELSE IF upto < Len(order)
    THEN [err |-> "TransportError",
          calls |-> [j \in 1..(upto + 1) |->
                       Sent(order[j], text, "", j <= upto)]]
  ELSE [err |-> "", calls |-> [j \in 1..Len(order) |->
                                Sent(order[j], text, "", TRUE)]]

\* get_message's guard: the error raised before any session is opened.
ListenGuard(v, tok, ids) ==
  IF ~Truthy(tok) THEN "NoTokenError"
  ELSE IF v = "legacy" /\ ~Truthy(ids) THEN "NoClientIdsError"
  ELSE ""

\* The variables a newly opened session starts with.
OpenSession(k) ==
  /\ pc' = "start_polling"
  /\ session' = "Listening"
  /\ kind' = k
  /\ inbox' = << >>
  /\ replies' = << >>

\* register_client() (utils) or add_client() without a map (legacy): draw
\* the password, log it, then listen for it with handle_passwd.
RegisterClient(pw, order, upto) ==
  /\ pc = "ready"
  /\ order \in Orders(IF handler.installed THEN IdsOf(handler.client_ids)
                       ELSE {})
  /\ upto <= Len(order)
  /\ password' = pw
  /\ LET e == Emit(handler, LogText(pw), order, upto)
         g == ListenGuard(variant, token, client_ids)
     IN  /\ calls' = e.calls
         /\ IF e.err # ""
              THEN /\ call' = Call("register_client", "raised", e.err, NoArgs)
                   /\ session' = "Idle" /\ kind' = "register"
                   /\ inbox' = << >> /\ replies' = << >>
                   /\ UNCHANGED pc
            ELSE IF g # ""
              THEN /\ call' = Call("register_client", "raised", g, NoArgs)
                   /\ session' = "Idle" /\ kind' = "register"
                   /\ inbox' = << >> /\ replies' = << >>
                   /\ UNCHANGED pc
            ELSE /\ call' = Call("register_client", "running", "", NoArgs)
                 /\ OpenSession("register")
  /\ UNCHANGED << variant, file, token, client_ids, handler, pending >>

\* get_message(f)(): the generic listen with a predicate of the caller.
GetMessage ==
  /\ pc = "ready"
  /\ calls' = << >>
  /\ LET g == ListenGuard(variant, token, client_ids) IN
       IF g # ""
         THEN /\ call' = Call("get_message", "raised", g, NoArgs)
              /\ session' = "Idle" /\ kind' = "generic"
              /\ inbox' = << >> /\ replies' = << >>
              /\ UNCHANGED pc
         ELSE /\ call' = Call("get_message", "running", "", NoArgs)
              /\ OpenSession("generic")
  /\ password' = ""
  /\ UNCHANGED << variant, file, token, client_ids, handler, pending >>

\* handle_msg's first lines in the legacy facade: a sender that is not in the
\* registry is dropped before the predicate sees the message.
Filtered(v, ids, chat) == v = "legacy" /\ chat \notin IdsOf(ids)

\* An inbound message with what handle_msg made of it: "filtered" (dropped
\* before the predicate), "raised" (the predicate raised), "false", "true".
Seen(chat, text, out) == [chat |-> chat, text |-> text, out |-> out]

\* handle_msg(update, context), run by the dispatcher thread for one inbound
\* text message.  The dispatcher runs from start_polling until the main
\* thread's signal handler stops the updater.  res is what a generic
\* predicate returns (whatever the text: one text stands for all in a generic
\* session, and res is fixed in a registration).  Replies are taken by the
\* transport.
HandleMsg(chat, text, res) ==
  /\ pc \in {"start_polling", "idle"}
  /\ Len(inbox) < MaxMsgs
  /\ kind = "generic" => text = << "hello" >>
  /\ kind = "register" => res = (text = << password >>)
  /\ IF Filtered(variant, client_ids, chat)
       THEN /\ inbox' = Append(inbox, Seen(chat, text, "filtered"))
            /\ UNCHANGED << pc, session, client_ids, file, replies, call >>
     ELSE IF kind = "register" /\ text = << password >>
             /\ client_ids.t # "dict"
       THEN \* handle_passwd raises; the dispatcher logs it and goes on
            /\ inbox' = Append(inbox, Seen(chat, text, "raised"))
            /\ UNCHANGED << pc, session, client_ids, file, replies, call >>
     ELSE
       LET ok == IF kind = "register" THEN text = << password >> ELSE res IN
       /\ inbox' = Append(inbox, Seen(chat, text, IF ok THEN "true" ELSE "false"))
       /\ IF kind = "register" /\ ok
            THEN /\ client_ids' =
                      PyDict(DictUpdate(client_ids.d,
                                        ClientDict([c \in {chat} |-> FullName(c)]).d))
                 /\ file' = WriteConfig(file, token, client_ids')
            ELSE UNCHANGED << client_ids, file >>
       /\ IF ~ok
            THEN /\ replies' = Append(replies, [chat |-> chat, text |-> Invalid])
                 /\ UNCHANGED << pc, session, call >>
            ELSE /\ replies' = Append(replies, [chat |-> chat, text |-> Accepted])
                 /\ session' = "Accepted"
                 /\ IF pc = "start_polling"
                      THEN \* SIGTERM before idle() installed its handler
                           /\ pc' = "killed"
                           /\ call' = [call EXCEPT !.st = "killed"]
                      ELSE UNCHANGED << pc, call >>
  /\ UNCHANGED << variant, token, handler, kind, password, pending, calls >>

\* updater.idle([SIGTERM]): the main thread installs the signal handler and
\* sleeps.
IdleInstall ==
  /\ pc = "start_polling"
  /\ pc' = "idle"
  /\ UNCHANGED << variant, file, token, client_ids, handler, session, kind,
                  password, inbox, replies, pending, calls,
                  call >>

\* The main thread runs the signal handler: the updater is stopped, idle()
\* and the wrapper return.
SignalHandler ==
  /\ pc = "idle"
  /\ session = "Accepted"
  /\ pc' = "ready"
  /\ session' = "Terminated"
  /\ call' = [call EXCEPT !.st = "returned"]
  /\ UNCHANGED << variant, file, token, client_ids, handler, kind, password,
                  inbox, replies, pending, calls >>

\* send_message's choice of recipients, ignoring the given ids (mutation).
EffectiveRegistryOnly(given, ids, registry) == IdsOf(registry)

\* send_message's choice of recipients: the given ids unless they are absent
\* or empty, else the registry.
Effective(given, ids, registry) ==
  IF given /\ ids # {} THEN ids ELSE IdsOf(registry)

\* send_message's guards, with the two checks swapped (mutation).
SendGuardSwapped(tok, eff) ==
  IF eff = {} THEN "NoClientIdsError"
  ELSE IF ~Truthy(tok) THEN "NoTokenError"
  ELSE ""

\* send_message's guards: the error raised before any transport call.
SendGuard(tok, eff) ==
  IF ~Truthy(tok) THEN "NoTokenError"
  ELSE IF eff = {} THEN "NoClientIdsError"
  ELSE ""

\* send_message(text, mode, ids): check the guards and start the loop over
\* the recipients in their iteration order.
SendMessage(text, mode, given, ids, order) ==
  /\ pc = "ready"
  /\ ~given => ids = {}
  /\ calls' = << >>
  /\ LET eff == Effective(given, ids, client_ids)
         g   == SendGuard(token, eff)
         a   == [NoArgs EXCEPT !.text = text, !.mode = mode, !.given = given,
                               !.ids = ids,
                               !.order = IF g = "" THEN order ELSE << >>]
     IN  /\ order \in (IF g = "" THEN Orders(eff) ELSE {<< >>})
         /\ IF g # ""
              THEN /\ call' = Call("send_message", "raised", g, a)
                   /\ UNCHANGED << pc, pending >>
              ELSE /\ call' = Call("send_message", "running", "", a)
                   /\ pending' = order
                   /\ pc' = "send"
  /\ NoSession
  /\ UNCHANGED << variant, file, token, client_ids, handler >>

\* The loop after a failed transport call, going on with the next recipient
\* (mutation).
AfterFailureContinue(rest) == IF rest = << >> THEN "ready" ELSE "send"

\* The loop after a failed transport call: the exception leaves send_message.
AfterFailure(rest) == "ready"

\* One iteration of the loop in send_message; ok tells whether the transport
\* takes the call.
SendStep(ok) ==
  /\ pc = "send"
  /\ pending # << >>
  /\ calls' = Append(calls,
                     Sent(Head(pending), call.args.text, call.args.mode, ok))
  /\ pending' = Tail(pending)
  /\ IF ok
       THEN /\ pc' = IF pending' = << >> THEN "ready" ELSE "send"
            /\ call' = IF pending' = << >>
                         THEN [call EXCEPT !.st = "returned"] ELSE call
       ELSE /\ pc' = AfterFailure(pending')
            /\ call' = [call EXCEPT !.st = "raised", !.err = "TransportError"]
  /\ UNCHANGED << variant, file, token, client_ids, handler, session, kind,
                  password, inbox, replies >>

Next ==
  \/ Construct
  \/ \E arg \in ArgTokens, typed \in TypedTokens : SetBotToken(arg, typed)
  \/ InstallHandler
  \/ \E given \in BOOLEAN, m \in ClientMaps : AddClient(given, m)
  \/ \E pw \in Passwords, order \in AllOrders, upto \in 0..Cardinality(ChatIds) :
       RegisterClient(pw, order, upto)
  \/ GetMessage
  \/ \E chat \in ChatIds, text \in InTexts, res \in BOOLEAN :
       HandleMsg(chat, text, res)
  \/ IdleInstall
  \/ SignalHandler
  \/ \E text \in OutTexts, mode \in ParseModes, given \in BOOLEAN,
        ids \in SUBSET ChatIds, order \in AllOrders :
       SendMessage(text, mode, given, ids, order)
  \/ \E ok \in BOOLEAN : SendStep(ok)

Spec == Init /\ [][Next]_vars


\* ---------------------------------------------------------------- claims
Returned(o) == pc = "ready" /\ call.op = o /\ call.st = "returned"
Loaded      == ConfigInit(file)
m_          == call.args.map
Label(v, c) == v.d[PyInt(c)]

\* C1: when set_bot_token, add_client or an accepted register_client has
\* returned, the config file holds exactly the facade's in-memory
\* (token, client_ids) pair: loading the file again gives an equal pair.
C1_MutationsPersisted ==
  (\E o \in {"set_bot_token", "add_client", "register_client"} : Returned(o))
    => Loaded = [err |-> "", token |-> token, client_ids |-> client_ids]

\* C1 witness: an accepted registration has returned after changing the
\* registry and the file.
C1_Witness ==
  /\ Returned("register_client")
  /\ client_ids # call.pre.client_ids
  /\ file # call.pre.file
  /\ Truthy(client_ids)

\* C2: register_client (add_client without a map in the legacy facade),
\* started with the token set and any registry, is not refused; the first
\* inbound message whose text is the password ends the session with its
\* sender mapped to its display name in memory and in the file; while only
\* other texts came in the registry is unchanged and the session listens.
\* (Stated for a process without the log handler and a registry that was
\* loaded as a mapping.)
C2_RegisterAcceptsFirstPassword ==
  (/\ call.op = "register_client"
   /\ ~handler.installed
   /\ call.pre.client_ids.t = "dict") =>
    /\ Truthy(call.pre.token) => call.st # "raised"
    /\ \A j \in 1..Len(inbox) :
         (/\ inbox[j].text = << password >>
          /\ \A l \in 1..(j - 1) : inbox[l].text # << password >>)
           => /\ session \in {"Accepted", "Terminated"}
              /\ inbox[j].chat \in IdsOf(client_ids)
              /\ Label(client_ids, inbox[j].chat) = PyStr(FullName(inbox[j].chat))
              /\ Loaded.client_ids = client_ids
    /\ (call.st = "running"
        /\ \A j \in 1..Len(inbox) : inbox[j].text # << password >>)
           => client_ids = call.pre.client_ids /\ session = "Listening"

\* C3: in a listen session every message the predicate rejects gets the
\* rejection reply, the accepted one gets the acceptance reply and ends the
\* listening, and no message after the accepted one is handed to the
\* predicate or replied to: at most one message is accepted per session.
C3_ExactlyOneAccepted ==
  LET P == SelectSeq(inbox, LAMBDA e : e.out \in {"true", "false"}) IN
  /\ Len(replies) = Len(P)
  /\ \A j \in 1..Len(P) :
       replies[j] = [chat |-> P[j].chat,
                     text |-> IF P[j].out = "true" THEN Accepted ELSE Invalid]
  /\ (\A j \in 1..Len(inbox) : inbox[j].out # "true") =>
       session \in {"Idle", "Listening"}
  /\ \A j, l \in 1..Len(inbox) :
       (j < l /\ inbox[j].out = "true") => inbox[l].out = "filtered"
  /\ Cardinality({j \in 1..Len(inbox) : inbox[j].out = "true"}) <= 1

\* The recipients the claim C4/C8 speaks of: the given ids, or the whole
\* registry when none are given.
Recipients ==
  IF call.args.given /\ call.args.ids # {} THEN call.args.ids
  ELSE IF call.pre.client_ids.t = "dict"
    THEN {k.i : k \in DOMAIN call.pre.client_ids.d}
  ELSE {}
UnchangedByCall ==
  /\ token = call.pre.token
  /\ client_ids = call.pre.client_ids
  /\ file = call.pre.file

\* C4: send_message raises NoTokenError whenever the token is unset,
\* whatever the recipients, and NoClientIdsError whenever the token is set
\* and there is no recipient; in both cases no transport call is made and
\* token, registry and file are unchanged.
C4_SendGuards ==
  call.op = "send_message" =>
    /\ ~Truthy(call.pre.token) =>
         call.st = "raised" /\ call.err = "NoTokenError"
    /\ (Truthy(call.pre.token) /\ Recipients = {}) =>
         call.st = "raised" /\ call.err = "NoClientIdsError"
    /\ call.err \in {"NoTokenError", "NoClientIdsError"} =>
         calls = << >> /\ pc = "ready" /\ UnchangedByCall

\* C4 witness: a send without token and without any recipient was refused
\* with NoTokenError.
C4_Witness ==
  /\ call.op = "send_message"
  /\ call.err = "NoTokenError"
  /\ Recipients = {}
  /\ pc = "ready"

\* C5: the password of a registration never appears in the text of a
\* message handed to the chat transport (send or reply).
C5_PasswordNeverSent ==
  password # "" =>
    /\ \A j \in 1..Len(calls) :
         calls[j].ok => ~Contains(calls[j].text, password)
    /\ \A j \in 1..Len(replies) : ~Contains(replies[j].text, password)

\* C6: the listen operation needs the token and nothing else: without the
\* token it raises NoTokenError and opens no session, with the token it
\* opens a session for every registry, the empty one included.  (Stated for
\* a registry that was loaded as a mapping.)
C6_ListenNeedsOnlyToken ==
  (call.op = "get_message" /\ call.pre.client_ids.t = "dict") =>
    /\ ~Truthy(call.pre.token) =>
         call.st = "raised" /\ call.err = "NoTokenError" /\ session = "Idle"
    /\ Truthy(call.pre.token) => call.st # "raised" /\ session # "Idle"

\* C7: constructing the store depends on the file only: no file gives
\* (None, {}); a file that is not a pickled config record raises ConfigError
\* and nothing else; a pickled config record gives the stored pair; and a
\* successful load always leaves a mapping as registry.
C7_LoadClassified ==
  call.op = "init" =>
    /\ ~file.exists =>
         call.st = "returned" /\ token = PyNone /\ client_ids = EmptyDict
    /\ (file.exists /\ file.bytes \notin ValidFiles) =>
         call.st = "raised" /\ call.err = "ConfigError"
    /\ (file.exists /\ file.bytes \in ValidFiles) =>
         /\ call.st = "returned"
         /\ file.bytes = PickleDump(ConfigRecord(token, client_ids))
    /\ call.st = "returned" => client_ids.t = "dict"

\* C8: a send_message that has returned made exactly one transport call,
\* with the given text and mode, to each recipient (the given ids, or the
\* whole registry when none are given) and to no other chat, and changed
\* neither token, registry nor file.
C8_OneCallPerRecipient ==
  Returned("send_message") =>
    /\ \A c \in ChatIds :
         Cardinality({j \in 1..Len(calls) : calls[j].chat = c})
           = IF c \in Recipients THEN 1 ELSE 0
    /\ \A j \in 1..Len(calls) :
         /\ calls[j].text = call.args.text
         /\ calls[j].mode = call.args.mode
         /\ calls[j].ok
    /\ UnchangedByCall

\* C8 witness: a send to one given id has returned while the registry holds
\* two.
C8_Witness ==
  /\ Returned("send_message")
  /\ call.args.given
  /\ Cardinality(call.args.ids) = 1
  /\ Cardinality(IdsOf(client_ids)) = 2
  /\ Len(calls) = 1

\* C9: after add_client(m) with a non-empty m the registry is the previous
\* one overridden by m: the ids of m carry m's labels, the other ids keep
\* theirs, none is removed, and the token is unchanged.
C9_MergeOverrides ==
  (Returned("add_client") /\ DOMAIN m_ # {}) =>
    /\ client_ids.t = "dict"
    /\ IdsOf(client_ids) = IdsOf(call.pre.client_ids) \cup DOMAIN m_
    /\ \A c \in DOMAIN m_ : Label(client_ids, c) = PyStr(m_[c])
    /\ \A c \in IdsOf(call.pre.client_ids) \ DOMAIN m_ :
         Label(client_ids, c) = Label(call.pre.client_ids, c)
    /\ token = call.pre.token

\* C9 witness: add_client has overridden the label of one id and kept
\* another id of the previous registry.
C9_Witness ==
  /\ Returned("add_client")
  /\ \E c \in DOMAIN m_ :
       /\ c \in IdsOf(call.pre.client_ids)
       /\ Label(call.pre.client_ids, c) # PyStr(m_[c])
  /\ IdsOf(call.pre.client_ids) \ DOMAIN m_ # {}

\* C10: when the transport call for the k-th recipient of a send_message
\* fails, the failure is raised to the caller, the k-1 recipients before it
\* each got their one message, and no call is made for the recipients after
\* it.
C10_FailureAborts ==
  (call.op = "send_message" /\ \E j \in 1..Len(calls) : ~calls[j].ok) =>
    LET k == Len(calls) IN
    /\ pc = "ready"
    /\ call.st = "raised"
    /\ call.err = "TransportError"
    /\ k <= Len(call.args.order)
    /\ \A j \in 1..k : calls[j].chat = call.args.order[j]
    /\ \A j \in 1..k : calls[j].ok <=> j < k
    /\ pending = SubSeq(call.args.order, k + 1, Len(call.args.order))

\* C10 witness: the first of two transport calls failed and the second
\* recipient was never served.
C10_Witness ==
  /\ call.op = "send_message"
  /\ call.err = "TransportError"
  /\ Len(call.args.order) = 2
  /\ Len(calls) = 1
  /\ pc = "ready"

====
